---- MODULE Spec2Model ----
(***************************************************************************)
(* Model of the Spanreed Obsidian plugin (src/main.ts, the variant with    *)
(* environments, lines 306-648): the settings, the Redis connection        *)
(* management, the monitor emitter, the request handler and the dispatch   *)
(* loop pollRedisTaskMessageQueue.                                         *)
(*                                                                         *)
(* JavaScript runs one callback at a time; a task is suspended only at an  *)
(* await of real I/O (connect, lPush, blPop, processFrontMatter,           *)
(* tryQuery).  Each action below is one such run-to-suspension segment.    *)
(* The transport and the host decide nondeterministically whether an       *)
(* awaited operation resolves or rejects.                                  *)
(***************************************************************************)
EXTENDS Integers, Sequences, FiniteSets, TLC

(* ------------------------------ bounds -------------------------------- *)
MaxCycles == 2
MaxRequests == 2
MaxChanges == 1
MaxErrorEvents == 1

\* One slot for the dispatch cycle and one for each error callback.
MaxTasks == MaxErrorEvents + 1

\* No run creates more clients: two per cycle, one per error callback.
MaxClients == 2 * MaxCycles + MaxErrorEvents

(* --------------------------- value domains ---------------------------- *)
Environment == {"production", "staging"}

Undefined == "undefined"

UrlA == "redis://a"
UrlB == "redis://b"

\* Texts typed into the user-id field of the settings tab.
UserIdTexts == {"-1", "1", "2"}

\* Texts typed into the Redis-URL field of the settings tab.
UrlTexts == {"", UrlA, UrlB}

\* parseInt(value) of the settings tab, on the texts above.
ParseInt(text) ==
    CASE text = "-1" -> -1
      [] text = "1" -> 1
      [] text = "2" -> 2

DEFAULT_CONNECTION_SETTINGS == [spanreedUserId |-> -1, redisUrl |-> ""]

\* What loadData() may return: nothing saved, or a saved settings object.
NoData == [present |-> FALSE,
           production |-> DEFAULT_CONNECTION_SETTINGS,
           staging |-> DEFAULT_CONNECTION_SETTINGS,
           activeEnvironment |-> "production"]

SavedData(p, s, a) ==
    [present |-> TRUE, production |-> p, staging |-> s, activeEnvironment |-> a]

SavedChoices ==
    { NoData,
      SavedData([spanreedUserId |-> 1, redisUrl |-> UrlA],
                [spanreedUserId |-> 2, redisUrl |-> UrlB], "production") }

(* ------------------------------ queue keys ---------------------------- *)
TaskQueueKey(userId) == "obsidian-plugin-tasks:" \o ToString(userId)

ReplyQueueKey(userId, requestId) ==
    "obsidian-plugin-tasks:" \o ToString(userId) \o ":" \o requestId


\* The heartbeat sent to the tenant's task queue.
MonitorQueueKeyTasks(userId) == "obsidian-plugin-tasks:" \o ToString(userId)

MonitorQueueKey(userId) == "obsidian-plugin-monitor:" \o ToString(userId)

WatchdogEvent(userId) == [user |-> userId, kind |-> "watchdog", message |-> ""]

ErrorEvent(userId, message) == [user |-> userId, kind |-> "error", message |-> message]

(* ----------------------------- JS values ------------------------------ *)
\* A JavaScript value of the kinds the handler distinguishes.
JsUndefined == [kind |-> "undefined", s |-> "", l |-> <<>>]
JsNull == [kind |-> "null", s |-> "", l |-> <<>>]
JsString(x) == [kind |-> "string", s |-> x, l |-> <<>>]
JsArray(q) == [kind |-> "array", s |-> "", l |-> q]


\* A test that takes a string for a list as well.
IsArrayOrString(v) == v.kind \in {"array", "string"}

\* Array.isArray(v)
IsArray(v) == v.kind = "array"

\* Array.prototype.indexOf on an array of strings: first index (0-based) or -1.
IndexOf(q, x) ==
    IF \E i \in 1..Len(q) : q[i] = x
    THEN (CHOOSE i \in 1..Len(q) : q[i] = x /\ \A j \in 1..(i - 1) : q[j] # x) - 1
    ELSE -1

\* Array.prototype.splice(index, 1): the array without the element at index.
Splice1(q, index) ==
    [i \in 1..(Len(q) - 1) |-> IF i <= index THEN q[i] ELSE q[i + 1]]

(* ------------------------ request and response ------------------------ *)
NoParams == [filepath |-> "", property |-> "", operation |-> "", value |-> "", query |-> ""]

ModifyParams(f, p, o, v) ==
    [filepath |-> f, property |-> p, operation |-> o, value |-> v, query |-> ""]

QueryParams(q) == [NoParams EXCEPT !.query = q]

Request(id, m, ps) == [request_id |-> id, method |-> m, params |-> ps]

NoRequest == Request("", "", NoParams)

Response(ok, res) == [success |-> ok, result |-> res]


\* A handler that starts from a success response.
InitialResponseSuccess == Response(TRUE, JsNull)

\* line 425: the response handleSpanreedRequest starts from.
InitialResponse == Response(FALSE, JsString("unknown error"))

\* A payload on the wire: a JSON object, or text that is no JSON at all.
Payload(j, b) == [json |-> j, body |-> b]


\* A decoder that never throws.
JsonParsesAnything(payload) == TRUE

\* JSON.parse(res.element), line 573.
JsonParses(payload) == payload.json # "garbage"

JsonParse(payload) == payload.body

\* JSON.stringify(response), line 578.
JsonStringify(response) == Payload("object", response)

(* ------------------------------ the vault ----------------------------- *)
MarkdownFiles == {"a.md"}
Properties == {"tags", "title"}

\* The switch cases of params.operation, lines 448-502.
Operations == {"addToList", "removeFromList", "setSingleValue", "deleteProperty", "getProperty"}

\* lines 435-441: the markdown file whose path is filepath, if any.
FileFound(filepath) == filepath \in MarkdownFiles


\* addToList without the indexOf test: the value is appended every time.
AddToListAlwaysAppends(fm, property, value, prev) ==
    LET fm1 == IF fm[property].kind = "undefined"
               THEN [fm EXCEPT ![property] = JsArray(<<>>)] ELSE fm
    IN IF ~IsArray(fm1[property])
       THEN [fm |-> fm1, response |-> Response(FALSE, JsString("property is not a list"))]
       ELSE [fm |-> [fm1 EXCEPT ![property] = JsArray(Append(fm1[property].l, value))],
             response |-> Response(TRUE, JsNull)]

\* The front-matter callback of each operation, lines 450-500: the front
\* matter it leaves and the response it assigns (prev when it assigns none).
AddToList(fm, property, value, prev) ==
    LET fm1 == IF fm[property].kind = "undefined"
               THEN [fm EXCEPT ![property] = JsArray(<<>>)] ELSE fm
    IN IF ~IsArray(fm1[property])
       THEN [fm |-> fm1, response |-> Response(FALSE, JsString("property is not a list"))]
       ELSE [fm |-> IF IndexOf(fm1[property].l, value) <= -1
                    THEN [fm1 EXCEPT ![property] = JsArray(Append(fm1[property].l, value))]
                    ELSE fm1,
             response |-> Response(TRUE, JsNull)]

RemoveFromList(fm, property, value, prev) ==
    IF fm[property].kind = "undefined"
    THEN [fm |-> fm, response |-> prev]
    ELSE IF ~IsArray(fm[property])
    THEN [fm |-> fm, response |-> Response(FALSE, JsString("property is not a list"))]
    ELSE LET index == IndexOf(fm[property].l, value)
         IN [fm |-> IF index > -1
                    THEN [fm EXCEPT ![property] = JsArray(Splice1(fm[property].l, index))]
                    ELSE fm,
             response |-> Response(TRUE, JsNull)]

SetSingleValue(fm, property, value, prev) ==
    [fm |-> [fm EXCEPT ![property] = JsString(value)], response |-> Response(TRUE, JsNull)]

DeleteProperty(fm, property, value, prev) ==
    [fm |-> [fm EXCEPT ![property] = JsUndefined], response |-> Response(TRUE, JsNull)]

GetProperty(fm, property, value, prev) ==
    [fm |-> fm,
     response |-> Response(TRUE, IF fm[property].kind = "undefined" THEN JsNull ELSE fm[property])]

ProcessFrontMatter(operation, fm, property, value, prev) ==
    CASE operation = "addToList" -> AddToList(fm, property, value, prev)
      [] operation = "removeFromList" -> RemoveFromList(fm, property, value, prev)
      [] operation = "setSingleValue" -> SetSingleValue(fm, property, value, prev)
      [] operation = "deleteProperty" -> DeleteProperty(fm, property, value, prev)
      [] operation = "getProperty" -> GetProperty(fm, property, value, prev)

(* ------------------------- handleSpanreedRequest ---------------------- *)
\* The case labels of the switch on request.method, lines 426-516.
RegisteredMethods == {"generate-daily-note", "modify-property", "query-dataview"}

\* line 515
UnknownMethodResponse(method) == Response(FALSE, JsString("unknown method " \o method))

\* Whether handleSpanreedRequest suspends on a host operation for this request:
\* processFrontMatter (lines 450-500) or tryQuery (line 509).
HandlerAwaitsHost(request) ==
    \/ /\ request.method = "modify-property"
       /\ FileFound(request.params.filepath)
       /\ request.params.operation \in Operations
    \/ request.method = "query-dataview"


\* The switch on request.method without its default case.
SyncResponseNoDefault(request) ==
    CASE request.method = "generate-daily-note" -> Response(TRUE, JsNull)
      [] request.method = "modify-property" ->
            IF ~FileFound(request.params.filepath)
            THEN Response(FALSE, JsString("file not found"))
            ELSE InitialResponse
      [] OTHER -> InitialResponse

\* The response of a request the handler answers without suspending.
SyncResponse(request) ==
    CASE request.method = "generate-daily-note" -> Response(TRUE, JsNull)
      [] request.method = "modify-property" ->
            IF ~FileFound(request.params.filepath)
            THEN Response(FALSE, JsString("file not found"))
            ELSE InitialResponse
      [] OTHER -> UnknownMethodResponse(request.method)

\* Commands the handler executes without suspending (line 429).
SyncCommands(request) ==
    IF request.method = "generate-daily-note" THEN 1 ELSE 0

(* ------------------------------- state -------------------------------- *)
VARIABLES
    data,               \* what saveData last stored / loadData returns
    loaded,             \* onload has run
    connObj,            \* the ConnectionSettings objects, by identity
    connRef,            \* settings.connectionSettings: environment -> object
    activeEnvironment,  \* settings.activeEnvironment
    notice,             \* the Notice onload showed, "" for none
    redisClient,        \* this.redisClient: a client id, 0 for undefined
    lastUsedRedisUrl,   \* this.lastUsedRedisUrl
    clients,            \* the clients createClient made: id -> url
    connected,          \* the clients whose connect() has resolved
    timers,             \* pending timeouts of pollRedisTaskMessageQueue
    task,               \* the suspended async calls
    store,              \* the Redis lists: <<url, key>> -> elements, head first
    frontmatter,        \* the front matter of a.md
    commandsRun,        \* executeCommandById("daily-notes") calls
    lastOutcome,        \* how the last ended dispatch cycle ended
    lastCycleClient,    \* the client its blocking pop was issued on, 0 for none
    unhandled,          \* rejected promises nobody awaits
    nCycles, nRequests, nChanges, nErrorEvents

settingsVars == <<data, connObj, connRef, activeEnvironment>>
hostVars == <<frontmatter, commandsRun>>
countVars == <<nCycles, nRequests, nChanges, nErrorEvents>>
clientVars == <<redisClient, lastUsedRedisUrl, clients, connected>>
cycleVars == <<lastOutcome, lastCycleClient>>

vars == <<data, loaded, connObj, connRef, activeEnvironment, notice, redisClient,
          lastUsedRedisUrl, clients, connected, timers, task, store, frontmatter, commandsRun,
          lastOutcome, lastCycleClient, unhandled, nCycles, nRequests, nChanges,
          nErrorEvents>>

TaskIds == 1..MaxTasks

NoPush == [key |-> "", payload |-> Payload("none", NoRequest)]

\* A free slot, or one suspended call: its kind ("poll": pollRedisTaskMessageQueue,
\* "monitor": sendRedisErrorToSpanreedMonitor), where it is suspended, and its locals.
NoTask == [kind |-> "none", pc |-> "none", url |-> "", user |-> 0, qUser |-> 0,
           client |-> 0, popClient |-> 0, key |-> "", push |-> NoPush, message |-> "",
           request |-> NoRequest, heartbeat |-> FALSE]

FreeSlots == {t \in TaskIds : task[t].kind = "none"}

FreeSlot == CHOOSE t \in FreeSlots : \A u \in FreeSlots : t <= u

\* lines 420-422
getActiveConnectionSettings == connObj[connRef[activeEnvironment]]

\* lines 398 and 402
Unconfigured(cs) == cs.spanreedUserId = -1 \/ cs.redisUrl = ""

Init ==
    /\ data \in SavedChoices
    /\ loaded = FALSE
    /\ connObj = [o \in 1..2 |-> DEFAULT_CONNECTION_SETTINGS]
    /\ connRef = [e \in Environment |-> 1]
    /\ activeEnvironment = "production"
    /\ notice = ""
    /\ redisClient = 0
    /\ lastUsedRedisUrl = Undefined
    /\ clients = <<>>
    /\ connected = {}
    /\ timers = 0
    /\ task = [t \in TaskIds |-> NoTask]
    /\ store = <<>>
    /\ frontmatter = [p \in Properties |-> JsUndefined]
    /\ commandsRun = 0
    /\ lastOutcome = "none"
    /\ lastCycleClient = 0
    /\ unhandled = 0
    /\ nCycles = 0 /\ nRequests = 0 /\ nChanges = 0 /\ nErrorEvents = 0

(* ------------------------------ settings ------------------------------ *)
\* Object.assign({}, DEFAULT_SETTINGS, await this.loadData()), line 413: a shallow
\* copy. With nothing saved, connectionSettings is DEFAULT_SETTINGS' own object,
\* whose two environments are the one DEFAULT_CONNECTION_SETTINGS object.
loadSettings ==
    IF data.present
    THEN /\ connObj' = [o \in 1..2 |-> IF o = 1 THEN data.production ELSE data.staging]
         /\ connRef' = [e \in Environment |-> IF e = "production" THEN 1 ELSE 2]
         /\ activeEnvironment' = data.activeEnvironment
    ELSE /\ connObj' = [o \in 1..2 |-> DEFAULT_CONNECTION_SETTINGS]
         /\ connRef' = [e \in Environment |-> 1]
         /\ activeEnvironment' = "production"

\* lines 375-406
onload ==
    /\ ~loaded
    /\ loaded' = TRUE
    /\ loadSettings
    /\ timers' = timers + 1
    /\ notice' = LET cs == connObj'[connRef'[activeEnvironment']]
                 IN IF cs.spanreedUserId = -1
                    THEN "Please set your Spanreed user ID in the plugin settings."
                    ELSE IF cs.redisUrl = ""
                    THEN "Please set your Redis URL in the plugin settings."
                    ELSE ""
    /\ UNCHANGED <<data, clientVars, task, store, hostVars, cycleVars, unhandled, countVars>>

\* The saved form of settings with the given objects and active environment.
SavedForm(objs, active) ==
    [present |-> TRUE, production |-> objs[connRef["production"]],
     staging |-> objs[connRef["staging"]], activeEnvironment |-> active]

\* lines 613-616: the dropdown's onChange.
SetActiveEnvironment(value) ==
    /\ loaded /\ nChanges < MaxChanges
    /\ value # activeEnvironment
    /\ activeEnvironment' = value
    /\ data' = SavedForm(connObj, value)
    /\ nChanges' = nChanges + 1
    /\ UNCHANGED <<loaded, connObj, connRef, notice, clientVars, timers, task, store,
                   hostVars, cycleVars, unhandled, nCycles, nRequests, nErrorEvents>>

\* lines 630-633: the user-id field's onChange, on the object display() captured.
SetSpanreedUserId(env, text) ==
    /\ loaded /\ nChanges < MaxChanges
    /\ ParseInt(text) # connObj[connRef[env]].spanreedUserId
    /\ connObj' = [connObj EXCEPT ![connRef[env]].spanreedUserId = ParseInt(text)]
    /\ data' = SavedForm(connObj', activeEnvironment)
    /\ nChanges' = nChanges + 1
    /\ UNCHANGED <<loaded, connRef, activeEnvironment, notice, clientVars, timers, task,
                   store, hostVars, cycleVars, unhandled, nCycles, nRequests, nErrorEvents>>

\* lines 641-644: the Redis-URL field's onChange.
SetRedisUrl(env, text) ==
    /\ loaded /\ nChanges < MaxChanges
    /\ text # connObj[connRef[env]].redisUrl
    /\ connObj' = [connObj EXCEPT ![connRef[env]].redisUrl = text]
    /\ data' = SavedForm(connObj', activeEnvironment)
    /\ nChanges' = nChanges + 1
    /\ UNCHANGED <<loaded, connRef, activeEnvironment, notice, clientVars, timers, task,
                   store, hostVars, cycleVars, unhandled, nCycles, nRequests, nErrorEvents>>

(* ------------------------------ transport ----------------------------- *)
\* The list under key on the server at url (an absent key is an empty list).
ListIn(st, url, key) == IF <<url, key>> \in DOMAIN st THEN st[<<url, key>>] ELSE <<>>

SetList(st, url, key, q) ==
    [k \in DOMAIN st \cup {<<url, key>>} |-> IF k = <<url, key>> THEN q ELSE st[k]]

\* LPUSH key element: at the head.
LPush(st, url, key, el) == SetList(st, url, key, <<el>> \o ListIn(st, url, key))

\* RPUSH key element: at the tail (the controller's side of the task queue).
RPush(st, url, key, el) == SetList(st, url, key, Append(ListIn(st, url, key), el))


\* A pop from the tail of the list (brPop for blPop).
brPop(q) == [element |-> q[Len(q)], rest |-> SubSeq(q, 1, Len(q) - 1)]

\* BLPOP key on a list that is not empty (line 568): the element it resolves
\* with, and the list it leaves.
blPop(q) == [element |-> Head(q), rest |-> Tail(q)]

\* The timeout, in seconds, of the blocking pop (line 568).
BlPopTimeout == 60

\* Whether BLPOP with this timeout ever resolves with null on a list that stays
\* empty: a timeout of 0 blocks indefinitely.
BlPopGivesUp(timeout) == timeout > 0

\* The requests and payloads the controller sends.
RequestBodies(id) ==
    { Request(id, "generate-daily-note", NoParams),
      Request(id, "modify-property", ModifyParams("a.md", "tags", "addToList", "v1")),
      Request(id, "query-dataview", QueryParams("q")),
      Request(id, "nope", NoParams) }

WirePayloads(id) ==
    {Payload("object", b) : b \in RequestBodies(id)} \cup {Payload("garbage", NoRequest)}

\* The tenant queues the controller feeds.
TenantQueues == {<<UrlA, 1>>}

\* The external controller pushes a request onto a tenant's task queue.
ControllerPush(url, userId, payload) ==
    /\ nRequests < MaxRequests
    /\ store' = RPush(store, url, TaskQueueKey(userId), payload)
    /\ nRequests' = nRequests + 1
    /\ UNCHANGED <<settingsVars, loaded, notice, clientVars, timers, task, hostVars,
                   cycleVars, unhandled, nCycles, nChanges, nErrorEvents>>

(* ----------------------------- connection ----------------------------- *)
\* lines 551-552: the condition under which ensureRedisClient creates a client.
NeedsConnect(client, last, url) ==
    client = 0 \/ last = Undefined \/ url # last


\* The finally block scheduling the next cycle twice.
AfterCycleTimersTwice(n) == n + 2

\* line 584, the finally block: the timeouts pending after a cycle ends.
AfterCycleTimers(n) == n + 1

\* lines 521-527: createRedisClient up to its await of connect(); the task t is
\* left suspended at pc with the url it was called with.
createRedisClient(t, fields, pc, url) ==
    /\ Len(clients) < MaxClients
    /\ clients' = Append(clients, url)
    /\ redisClient' = Len(clients) + 1
    /\ task' = [task EXCEPT ![t] = [fields EXCEPT !.pc = pc, !.url = url,
                                                    !.client = Len(clients) + 1]]


\* EndCycle with the rescheduling at the end of the try block instead of in finally.
EndCycleNoFinally(t, outcome) ==
    /\ task' = [task EXCEPT ![t] = NoTask]
    /\ timers' = IF outcome \in {"replied", "timeout"} THEN timers + 1 ELSE timers
    /\ lastOutcome' = outcome
    /\ lastCycleClient' = task[t].popClient

\* lines 581-585: the cycle of task t ends; catch logs, finally schedules.
EndCycle(t, outcome) ==
    /\ task' = [task EXCEPT ![t] = NoTask]
    /\ timers' = AfterCycleTimers(timers)
    /\ lastOutcome' = outcome
    /\ lastCycleClient' = task[t].popClient

\* lines 542-546: sendSpanreedWatchdogEvent up to its first suspension, when
\* lastUsedRedisUrl is last.
sendSpanreedWatchdogEvent(t, fields, last) ==
    LET cs == getActiveConnectionSettings
        spanreedUserId == cs.spanreedUserId
        f == [fields EXCEPT !.user = spanreedUserId]
    IN IF NeedsConnect(redisClient, last, cs.redisUrl)
       THEN createRedisClient(t, f, "connect2", cs.redisUrl)
       ELSE /\ task' = [task EXCEPT ![t] =
                          [f EXCEPT !.pc = "hbPush", !.client = redisClient,
                                    !.push = [key |-> MonitorQueueKey(spanreedUserId),
                                              payload |-> JsonStringify(WatchdogEvent(spanreedUserId))]]]
            /\ UNCHANGED <<redisClient, clients>>

\* pollRedisTaskMessageQueue runs from its start to its first suspension
\* (lines 558-560, 549-555).
PollStart ==
    /\ loaded /\ timers > 0 /\ FreeSlots # {}
    /\ timers' = timers - 1
    /\ nCycles' = nCycles + 1
    /\ LET t == FreeSlot
           f == [NoTask EXCEPT !.kind = "poll"]
           url == getActiveConnectionSettings.redisUrl
       IN IF NeedsConnect(redisClient, lastUsedRedisUrl, url)
          THEN createRedisClient(t, f, "connect1", url)
          ELSE sendSpanreedWatchdogEvent(t, f, lastUsedRedisUrl)
    /\ UNCHANGED <<settingsVars, loaded, notice, lastUsedRedisUrl, connected, store,
                   hostVars, cycleVars, unhandled, nRequests, nChanges, nErrorEvents>>

\* The timeout of line 394 or 584 fires.
TimerFire == nCycles < MaxCycles /\ PollStart

\* connect() resolves (lines 527-528) and the caller goes on.
ConnectResolves(t) ==
    /\ task[t].pc \in {"connect1", "connect2", "mconnect"}
    /\ connected' = connected \cup {task[t].client}
    /\ lastUsedRedisUrl' = task[t].url
    /\ CASE task[t].pc = "connect1" -> sendSpanreedWatchdogEvent(t, task[t], task[t].url)
         [] task[t].pc = "connect2" ->
              /\ task' = [task EXCEPT ![t] =
                            [@ EXCEPT !.pc = "hbPush", !.client = redisClient,
                                      !.push = [key |-> MonitorQueueKey(task[t].user),
                                                payload |-> JsonStringify(WatchdogEvent(task[t].user))]]]
              /\ UNCHANGED <<redisClient, clients>>
         [] task[t].pc = "mconnect" ->
              /\ task' = [task EXCEPT ![t] =
                            [@ EXCEPT !.pc = "mPush", !.client = redisClient,
                                      !.push = [key |-> MonitorQueueKey(task[t].user),
                                                payload |-> JsonStringify(ErrorEvent(task[t].user, task[t].message))]]]
              /\ UNCHANGED <<redisClient, clients>>
    /\ UNCHANGED <<settingsVars, loaded, notice, timers, store, hostVars, cycleVars,
                   unhandled, countVars>>

\* connect() rejects: the cycle's catch takes it (lines 581-585).
ConnectRejectsPoll(t) ==
    /\ task[t].pc \in {"connect1", "connect2"}
    /\ EndCycle(t, "connectFailed")
    /\ UNCHANGED <<settingsVars, loaded, notice, clientVars, store, hostVars, unhandled,
                   countVars>>

\* connect() rejects in sendRedisErrorToSpanreedMonitor, which nobody awaits (line 525).
ConnectRejectsMonitor(t) ==
    /\ task[t].pc = "mconnect"
    /\ task' = [task EXCEPT ![t] = NoTask]
    /\ unhandled' = unhandled + 1
    /\ UNCHANGED <<settingsVars, loaded, notice, clientVars, timers, store, hostVars,
                   cycleVars, countVars>>

(* --------------------------- the dispatch loop ------------------------ *)
\* A command issued on a client is sent, and so can resolve, only once the client's
\* connect() has resolved; until then it waits in the client's queue.
\* The heartbeat's lPush resolves (line 546); the cycle reads the tenant id and
\* issues the blocking pop on this.redisClient (lines 563-568).
HeartbeatResolves(t) ==
    /\ task[t].pc = "hbPush"
    /\ task[t].client \in connected
    /\ store' = LPush(store, clients[task[t].client], task[t].push.key, task[t].push.payload)
    /\ LET spanreedUserId == getActiveConnectionSettings.spanreedUserId
       IN task' = [task EXCEPT ![t] =
                     [@ EXCEPT !.pc = "blPop", !.heartbeat = TRUE, !.qUser = spanreedUserId,
                               !.client = redisClient, !.popClient = redisClient,
                               !.key = TaskQueueKey(spanreedUserId),
                               !.push = NoPush]]
    /\ UNCHANGED <<settingsVars, loaded, notice, clientVars, timers, hostVars, cycleVars,
                   unhandled, countVars>>

HeartbeatRejects(t) ==
    /\ task[t].pc = "hbPush"
    /\ EndCycle(t, "heartbeatFailed")
    /\ UNCHANGED <<settingsVars, loaded, notice, clientVars, store, hostVars, unhandled,
                   countVars>>

\* The list the blocking pop of task t waits on.
PolledList(t) == ListIn(store, clients[task[t].client], task[t].key)

\* The store once the blocking pop of task t has taken its element.
AfterPop(t) ==
    SetList(store, clients[task[t].client], task[t].key, blPop(PolledList(t)).rest)

\* blPop resolves with null after its timeout (lines 570-572).
BlPopTimesOut(t) ==
    /\ task[t].pc = "blPop"
    /\ task[t].client \in connected
    /\ PolledList(t) = <<>>
    /\ BlPopGivesUp(BlPopTimeout)
    /\ EndCycle(t, "timeout")
    /\ UNCHANGED <<settingsVars, loaded, notice, clientVars, store, hostVars, unhandled,
                   countVars>>

\* blPop rejects (a transport error).
BlPopRejects(t) ==
    /\ task[t].pc = "blPop"
    /\ EndCycle(t, "popFailed")
    /\ UNCHANGED <<settingsVars, loaded, notice, clientVars, store, hostVars, unhandled,
                   countVars>>

\* blPop resolves with an element JSON.parse throws on (line 573).
BlPopMalformed(t) ==
    /\ task[t].pc = "blPop"
    /\ task[t].client \in connected
    /\ PolledList(t) # <<>>
    /\ ~JsonParses(blPop(PolledList(t)).element)
    /\ store' = AfterPop(t)
    /\ EndCycle(t, "decodeFailed")
    /\ UNCHANGED <<settingsVars, loaded, notice, clientVars, hostVars, unhandled, countVars>>

\* The reply's lPush as line 577-578 issues it, on this.redisClient.
ReplyPush(userId, request, response) ==
    [key |-> ReplyQueueKey(userId, request.request_id), payload |-> JsonStringify(response)]

\* blPop resolves with a request the handler answers without suspending
\* (lines 573-578, 426-445, 514-517).
BlPopHandledSync(t) ==
    /\ task[t].pc = "blPop"
    /\ task[t].client \in connected
    /\ PolledList(t) # <<>>
    /\ JsonParses(blPop(PolledList(t)).element)
    /\ LET request == JsonParse(blPop(PolledList(t)).element)
       IN /\ ~HandlerAwaitsHost(request)
          /\ commandsRun' = commandsRun + SyncCommands(request)
          /\ task' = [task EXCEPT ![t] =
                        [@ EXCEPT !.pc = "replyPush", !.request = request,
                                  !.client = redisClient,
                                  !.push = ReplyPush(task[t].qUser, request, SyncResponse(request))]]
    /\ store' = AfterPop(t)
    /\ UNCHANGED <<settingsVars, loaded, notice, clientVars, timers, frontmatter, cycleVars,
                   unhandled, countVars>>

\* blPop resolves with a request whose handler suspends on the host
\* (processFrontMatter, lines 450-500; tryQuery, line 509).
BlPopHandlerSuspends(t) ==
    /\ task[t].pc = "blPop"
    /\ task[t].client \in connected
    /\ PolledList(t) # <<>>
    /\ JsonParses(blPop(PolledList(t)).element)
    /\ LET request == JsonParse(blPop(PolledList(t)).element)
       IN /\ HandlerAwaitsHost(request)
          /\ task' = [task EXCEPT ![t] = [@ EXCEPT !.pc = "handler", !.request = request]]
    /\ store' = AfterPop(t)
    /\ UNCHANGED <<settingsVars, loaded, notice, clientVars, timers, hostVars, cycleVars,
                   unhandled, countVars>>

\* processFrontMatter runs its callback and resolves (lines 450-503).
FrontMatterResolves(t) ==
    /\ task[t].pc = "handler"
    /\ task[t].request.method = "modify-property"
    /\ LET params == task[t].request.params
           r == ProcessFrontMatter(params.operation, frontmatter, params.property,
                                   params.value, InitialResponse)
       IN /\ frontmatter' = r.fm
          /\ task' = [task EXCEPT ![t] =
                        [@ EXCEPT !.pc = "replyPush", !.client = redisClient,
                                  !.push = ReplyPush(task[t].qUser, task[t].request, r.response)]]
    /\ UNCHANGED <<settingsVars, loaded, notice, clientVars, timers, store, commandsRun,
                   cycleVars, unhandled, countVars>>

\* tryQuery resolves with the query's result (lines 509-511).
QueryResolves(t) ==
    /\ task[t].pc = "handler"
    /\ task[t].request.method = "query-dataview"
    /\ task' = [task EXCEPT ![t] =
                  [@ EXCEPT !.pc = "replyPush", !.client = redisClient,
                            !.push = ReplyPush(task[t].qUser, task[t].request,
                                               Response(TRUE, JsString("rows")))]]
    /\ UNCHANGED <<settingsVars, loaded, notice, clientVars, timers, store, hostVars,
                   cycleVars, unhandled, countVars>>

\* The host operation rejects (tryQuery on a bad query, processFrontMatter on a file
\* it cannot parse): the rejection leaves handleSpanreedRequest and the then-callback
\* and reaches the catch of line 581.
HandlerRejects(t) ==
    /\ task[t].pc = "handler"
    /\ EndCycle(t, "handlerFault")
    /\ UNCHANGED <<settingsVars, loaded, notice, clientVars, store, hostVars, unhandled,
                   countVars>>

\* The reply's lPush resolves (line 578) and the cycle ends.
ReplyResolves(t) ==
    /\ task[t].pc = "replyPush"
    /\ task[t].client \in connected
    /\ store' = LPush(store, clients[task[t].client], task[t].push.key, task[t].push.payload)
    /\ EndCycle(t, "replied")
    /\ UNCHANGED <<settingsVars, loaded, notice, clientVars, hostVars, unhandled, countVars>>

ReplyRejects(t) ==
    /\ task[t].pc = "replyPush"
    /\ EndCycle(t, "publishFailed")
    /\ UNCHANGED <<settingsVars, loaded, notice, clientVars, store, hostVars, unhandled,
                   countVars>>

(* --------------------------- the monitor emitter ---------------------- *)
\* A client emits 'error' and its callback (lines 524-526) calls
\* sendRedisErrorToSpanreedMonitor, which runs to its first suspension (lines 531-535).
ClientError(c) ==
    /\ c \in 1..Len(clients)
    /\ nErrorEvents < MaxErrorEvents /\ FreeSlots # {}
    /\ nErrorEvents' = nErrorEvents + 1
    /\ LET t == FreeSlot
           cs == getActiveConnectionSettings
           f == [NoTask EXCEPT !.kind = "monitor", !.user = cs.spanreedUserId,
                               !.message = "socket error"]
       IN IF NeedsConnect(redisClient, lastUsedRedisUrl, cs.redisUrl)
          THEN createRedisClient(t, f, "mconnect", cs.redisUrl)
          ELSE /\ task' = [task EXCEPT ![t] =
                             [f EXCEPT !.pc = "mPush", !.client = redisClient,
                                       !.push = [key |-> MonitorQueueKey(f.user),
                                                 payload |-> JsonStringify(ErrorEvent(f.user, f.message))]]]
               /\ UNCHANGED <<redisClient, clients>>
    /\ UNCHANGED <<settingsVars, loaded, notice, lastUsedRedisUrl, connected, timers, store,
                   hostVars, cycleVars, unhandled, nCycles, nRequests, nChanges>>

\* The error event's lPush resolves (lines 535-539).
MonitorPushResolves(t) ==
    /\ task[t].pc = "mPush"
    /\ task[t].client \in connected
    /\ store' = LPush(store, clients[task[t].client], task[t].push.key, task[t].push.payload)
    /\ task' = [task EXCEPT ![t] = NoTask]
    /\ UNCHANGED <<settingsVars, loaded, notice, clientVars, timers, hostVars, cycleVars,
                   unhandled, countVars>>

\* The error event's lPush rejects, and nobody awaits sendRedisErrorToSpanreedMonitor.
MonitorPushRejects(t) ==
    /\ task[t].pc = "mPush"
    /\ task' = [task EXCEPT ![t] = NoTask]
    /\ unhandled' = unhandled + 1
    /\ UNCHANGED <<settingsVars, loaded, notice, clientVars, timers, store, hostVars,
                   cycleVars, countVars>>

(* --------------------------- the specification ------------------------ *)
Next ==
    \/ onload
    \/ \E e \in Environment : SetActiveEnvironment(e)
    \/ \E e \in Environment, x \in UserIdTexts : SetSpanreedUserId(e, x)
    \/ \E e \in Environment, x \in UrlTexts : SetRedisUrl(e, x)
    \/ \E q \in TenantQueues, p \in WirePayloads("r" \o ToString(nRequests + 1)) :
          ControllerPush(q[1], q[2], p)
    \/ TimerFire
    \/ \E t \in TaskIds : ConnectResolves(t)
    \/ \E t \in TaskIds : ConnectRejectsPoll(t)
    \/ \E t \in TaskIds : ConnectRejectsMonitor(t)
    \/ \E t \in TaskIds : HeartbeatResolves(t)
    \/ \E t \in TaskIds : HeartbeatRejects(t)
    \/ \E t \in TaskIds : BlPopTimesOut(t)
    \/ \E t \in TaskIds : BlPopRejects(t)
    \/ \E t \in TaskIds : BlPopMalformed(t)
    \/ \E t \in TaskIds : BlPopHandledSync(t)
    \/ \E t \in TaskIds : BlPopHandlerSuspends(t)
    \/ \E t \in TaskIds : FrontMatterResolves(t)
    \/ \E t \in TaskIds : QueryResolves(t)
    \/ \E t \in TaskIds : HandlerRejects(t)
    \/ \E t \in TaskIds : ReplyResolves(t)
    \/ \E t \in TaskIds : ReplyRejects(t)
    \/ \E c \in 1..MaxClients : ClientError(c)
    \/ \E t \in TaskIds : MonitorPushResolves(t)
    \/ \E t \in TaskIds : MonitorPushRejects(t)

Spec == Init /\ [][Next]_vars

(* ------------- the loop while the environment is switched ------------- *)
\* Saved settings, the controller feeding the staging tenant's queue, and the
\* user switching the active environment: the runs in which a cycle serves a
\* request on the endpoint it was switched to.
SwitchQueues == {<<UrlB, 2>>}

SwitchPayloads(id) ==
    { Payload("object", Request(id, "query-dataview", QueryParams("q"))),
      Payload("object", Request(id, "nope", NoParams)) }

SwitchInit == Init /\ data.present

SwitchNext ==
    \/ onload
    \/ \E e \in Environment : SetActiveEnvironment(e)
    \/ \E q \in SwitchQueues, p \in SwitchPayloads("r" \o ToString(nRequests + 1)) :
          ControllerPush(q[1], q[2], p)
    \/ TimerFire
    \/ \E t \in TaskIds : ConnectResolves(t)
    \/ \E t \in TaskIds : ConnectRejectsPoll(t)
    \/ \E t \in TaskIds : ConnectRejectsMonitor(t)
    \/ \E t \in TaskIds : HeartbeatResolves(t)
    \/ \E t \in TaskIds : HeartbeatRejects(t)
    \/ \E t \in TaskIds : BlPopTimesOut(t)
    \/ \E t \in TaskIds : BlPopRejects(t)
    \/ \E t \in TaskIds : BlPopHandledSync(t)
    \/ \E t \in TaskIds : BlPopHandlerSuspends(t)
    \/ \E t \in TaskIds : QueryResolves(t)
    \/ \E t \in TaskIds : HandlerRejects(t)
    \/ \E t \in TaskIds : ReplyResolves(t)
    \/ \E t \in TaskIds : ReplyRejects(t)
    \/ \E c \in 1..MaxClients : ClientError(c)
    \/ \E t \in TaskIds : MonitorPushResolves(t)
    \/ \E t \in TaskIds : MonitorPushRejects(t)

SwitchSpec == SwitchInit /\ [][SwitchNext]_vars

(* ------------------ the loop serving a waiting queue ------------------ *)
\* The transport is available, the settings are configured and left alone, and
\* the controller has left its requests on the tenant's task queue: the loop
\* serves them, the host resolving or rejecting what the handler awaits.
ServeUrl == UrlA
ServeUserId == 1

ServeValues == {"v1", "v2"}

\* What the front matter may hold under "tags" before the requests arrive.
FrontMatterValues ==
    { JsUndefined, JsNull, JsString("v1"), JsArray(<<>>), JsArray(<<"v1">>),
      JsArray(<<"v2", "v1">>) }

ServeRequestBodies(id) ==
    { Request(id, "modify-property", ModifyParams("a.md", "tags", o, v)) :
          o \in Operations, v \in ServeValues }
    \cup { Request(id, "modify-property", ModifyParams("zz.md", "tags", "addToList", "v1")),
           Request(id, "modify-property", ModifyParams("a.md", "tags", "renameProperty", "v1")) }
    \cup { Request(id, m, NoParams) :
              m \in {"generate-daily-note", "read-file", "list-dir", "move-file", "nope"} }
    \cup { Request(id, "query-dataview", QueryParams("q")) }

RequestId(i) == "r" \o ToString(i)

\* The task queues the controller may have left: one to MaxRequests requests,
\* the i-th with request id r<i>.
ServeQueues ==
    UNION { { q \in [1..n -> UNION {{Payload("object", b) : b \in ServeRequestBodies(RequestId(i))} :
                                        i \in 1..n}] :
                \A i \in 1..n : q[i].body.request_id = RequestId(i) } :
            n \in 1..MaxRequests }

ServeInit ==
    /\ data = SavedData([spanreedUserId |-> ServeUserId, redisUrl |-> ServeUrl],
                        [spanreedUserId |-> 2, redisUrl |-> UrlB], "production")
    /\ loaded = TRUE
    /\ connObj = [o \in 1..2 |-> IF o = 1 THEN data.production ELSE data.staging]
    /\ connRef = [e \in Environment |-> IF e = "production" THEN 1 ELSE 2]
    /\ activeEnvironment = "production"
    /\ notice = ""
    /\ redisClient = 0
    /\ lastUsedRedisUrl = Undefined
    /\ clients = <<>>
    /\ connected = {}
    /\ timers = 1
    /\ task = [t \in TaskIds |-> NoTask]
    /\ \E q \in ServeQueues :
          /\ store = (<<ServeUrl, TaskQueueKey(ServeUserId)>> :> q)
          /\ nRequests = Len(q)
    /\ \E v \in FrontMatterValues, w \in {JsUndefined, JsString("t")} :
          frontmatter = [p \in Properties |-> IF p = "tags" THEN v ELSE w]
    /\ commandsRun = 0
    /\ lastOutcome = "none"
    /\ lastCycleClient = 0
    /\ unhandled = 0
    /\ nCycles = 0 /\ nChanges = 0 /\ nErrorEvents = 0

\* The timeout of line 394 or 584 fires, while requests are left on the queue.
ServeTimerFire ==
    /\ ListIn(store, ServeUrl, TaskQueueKey(ServeUserId)) # <<>>
    /\ PollStart

ServeNext ==
    \/ ServeTimerFire
    \/ \E t \in TaskIds : ConnectResolves(t)
    \/ \E t \in TaskIds : HeartbeatResolves(t)
    \/ \E t \in TaskIds : BlPopHandledSync(t)
    \/ \E t \in TaskIds : BlPopHandlerSuspends(t)
    \/ \E t \in TaskIds : FrontMatterResolves(t)
    \/ \E t \in TaskIds : QueryResolves(t)
    \/ \E t \in TaskIds : HandlerRejects(t)
    \/ \E t \in TaskIds : ReplyResolves(t)

ServeSpec == ServeInit /\ [][ServeNext]_vars

(* ------------------------- the initial variant ----------------------- *)
\* The first pollRedisTaskMessageQueue (lines 129-241; lines 742-854 are a copy):
\* one settings object, no heartbeat, no try/catch, the handler inline.  The one
\* settings object is kept as the "production" object of the state, and the
\* handler's code, the same text as lines 424-518, is the handler above.

\* The timeout, in seconds, of the blocking pop (line 137).
InitialBlPopTimeout == 0

\* this.settings (lines 30-33, 122)
InitialSettings == connObj[connRef["production"]]

\* lines 44-115: loadSettings, the timeout of line 105, the notices.
InitialOnload == onload

\* lines 288-291 and 299-302: the settings tab's onChange callbacks.
InitialSetSpanreedUserId(text) == SetSpanreedUserId("production", text)

InitialSetRedisUrl(text) == SetRedisUrl("production", text)

\* The pop of line 137, as task t issues it.
InitialBlPopIssued(t, fields) ==
    [fields EXCEPT !.pc = "iblPop", !.client = redisClient, !.popClient = redisClient,
                   !.key = TaskQueueKey(InitialSettings.spanreedUserId)]

\* The timeout fires: lines 129-137, to the first suspension.
InitialPollStart ==
    /\ loaded /\ timers > 0 /\ nCycles < MaxCycles /\ FreeSlots # {}
    /\ timers' = timers - 1
    /\ nCycles' = nCycles + 1
    /\ LET t == FreeSlot
           f == [NoTask EXCEPT !.kind = "poll"]
       IN IF redisClient = 0
          THEN /\ Len(clients) < MaxClients
               /\ clients' = Append(clients, InitialSettings.redisUrl)
               /\ redisClient' = Len(clients) + 1
               /\ task' = [task EXCEPT ![t] =
                             [f EXCEPT !.pc = "iconnect", !.client = Len(clients) + 1]]
          ELSE /\ task' = [task EXCEPT ![t] = InitialBlPopIssued(t, f)]
               /\ UNCHANGED <<redisClient, clients>>
    /\ UNCHANGED <<settingsVars, loaded, notice, lastUsedRedisUrl, connected, store,
                   hostVars, cycleVars, unhandled, nRequests, nChanges, nErrorEvents>>

\* connect() resolves (line 134) and the pop is issued (line 137).
InitialConnectResolves(t) ==
    /\ task[t].pc = "iconnect"
    /\ connected' = connected \cup {task[t].client}
    /\ task' = [task EXCEPT ![t] = InitialBlPopIssued(t, task[t])]
    /\ UNCHANGED <<settingsVars, loaded, notice, redisClient, lastUsedRedisUrl, clients,
                   timers, store, hostVars, cycleVars, unhandled, countVars>>

\* blPop resolves (lines 138-237): with null once its timeout has passed on an
\* empty list, and the next cycle is scheduled (lines 139-141, 240); or with an
\* element, whose reply queue is named from the settings as they are now (line 143).
InitialBlPopResolves(t) ==
    /\ task[t].pc = "iblPop"
    /\ task[t].client \in connected
    /\ PolledList(t) # <<>> \/ BlPopGivesUp(InitialBlPopTimeout)
    /\ IF PolledList(t) = <<>>
       THEN /\ EndCycle(t, "timeout")
            /\ UNCHANGED <<store, commandsRun, unhandled>>
       ELSE /\ store' = AfterPop(t)
            /\ IF ~JsonParses(blPop(PolledList(t)).element)
               THEN /\ task' = [task EXCEPT ![t] = NoTask]
                    /\ lastOutcome' = "decodeFailed"
                    /\ lastCycleClient' = task[t].popClient
                    /\ unhandled' = unhandled + 1
                    /\ UNCHANGED <<timers, commandsRun>>
               ELSE LET request == JsonParse(blPop(PolledList(t)).element)
                        qUser == InitialSettings.spanreedUserId
                    IN /\ task' = [task EXCEPT ![t] =
                                     IF HandlerAwaitsHost(request)
                                     THEN [@ EXCEPT !.pc = "handler", !.request = request,
                                                    !.qUser = qUser]
                                     ELSE [@ EXCEPT !.pc = "replyPush", !.request = request,
                                                    !.qUser = qUser, !.client = redisClient,
                                                    !.push = ReplyPush(qUser, request,
                                                                       SyncResponse(request))]]
                       /\ commandsRun' = commandsRun + SyncCommands(request)
                       /\ UNCHANGED <<timers, cycleVars, unhandled>>
    /\ UNCHANGED <<settingsVars, loaded, notice, clientVars, frontmatter, countVars>>

\* An awaited operation rejects (connect, blPop, the host operation, the reply's
\* lPush): nothing catches it, the promise of pollRedisTaskMessageQueue rejects
\* unhandled, and line 240 is never reached.
InitialRejects(t) ==
    /\ task[t].kind = "poll"
    /\ task' = [task EXCEPT ![t] = NoTask]
    /\ lastOutcome' = "uncaught"
    /\ lastCycleClient' = task[t].popClient
    /\ unhandled' = unhandled + 1
    /\ UNCHANGED <<settingsVars, loaded, notice, clientVars, timers, store, hostVars,
                   countVars>>

\* The steps of the plugin, the transport and the host that are bound to happen.
InitialProgress ==
    \/ InitialOnload
    \/ InitialPollStart
    \/ \E t \in TaskIds : InitialConnectResolves(t)
    \/ \E t \in TaskIds : InitialBlPopResolves(t)
    \/ \E t \in TaskIds : FrontMatterResolves(t)
    \/ \E t \in TaskIds : QueryResolves(t)
    \/ \E t \in TaskIds : ReplyResolves(t)

InitialNext ==
    \/ InitialOnload
    \/ \E x \in UserIdTexts : InitialSetSpanreedUserId(x)
    \/ \E x \in UrlTexts : InitialSetRedisUrl(x)
    \/ \E q \in TenantQueues, p \in WirePayloads("r" \o ToString(nRequests + 1)) :
          ControllerPush(q[1], q[2], p)
    \/ InitialPollStart
    \/ \E t \in TaskIds : InitialConnectResolves(t)
    \/ \E t \in TaskIds : InitialBlPopResolves(t)
    \/ \E t \in TaskIds : FrontMatterResolves(t)
    \/ \E t \in TaskIds : QueryResolves(t)
    \/ \E t \in TaskIds : ReplyResolves(t)
    \/ \E t \in TaskIds : InitialRejects(t)

\* The event loop runs every callback that is ready, and the transport and the
\* host settle what they can: weak fairness of those steps. The user and the
\* controller are bound to nothing.
InitialSpec == Init /\ [][InitialNext]_vars /\ WF_vars(InitialProgress)

(* ------------------------------- claims ------------------------------- *)
PollTasks == {t \in TaskIds : task[t].kind = "poll"}

\* The dispatch cycle of task t ends in this step.
CycleEnds(t) == task[t].kind = "poll" /\ task'[t].kind = "none"

\* The blocking pop of task t takes an element off its list in this step.
Pops(t) == task[t].pc = "blPop" /\ task'[t].pc # "blPop" /\ store' # store

\* The element BLPOP takes: the head of the polled list.
Taken(t) == Head(PolledList(t))

\* The replies under key, on every server.
ReplyCount(st, key) ==
    Len(ListIn(st, "", key)) + Len(ListIn(st, UrlA, key)) + Len(ListIn(st, UrlB, key))

\* C1: when a dispatch cycle that decoded a request ends, whatever the handler's
\* outcome, the reply queue obsidian-plugin-tasks:<userId>:<request_id> holds
\* exactly one response (a cycle whose reply push itself was rejected aside).
C1_ExactlyOneReply ==
    [][\A t \in TaskIds :
          (CycleEnds(t) /\ task[t].request # NoRequest /\ lastOutcome' # "publishFailed")
              => ReplyCount(store', "obsidian-plugin-tasks:" \o ToString(task[t].qUser)
                                        \o ":" \o task[t].request.request_id) = 1]_vars

\* C2: a fault of the host operation a handler waits on never ends the cycle:
\* the cycle goes on to push a failure response
\* {success: false, result: "Request <method> failed: <message>"}.
C2_FaultBecomesFailureReply ==
    [][\A t \in TaskIds :
          (task[t].pc = "handler" /\ task'[t].pc # "handler")
              => /\ task'[t].pc = "replyPush"
                 /\ task'[t].push.key = "obsidian-plugin-tasks:" \o ToString(task[t].qUser)
                                            \o ":" \o task[t].request.request_id
                 /\ task'[t].push.payload.json = "object"]_vars

\* C3: a dispatch cycle that ends, however it ends, leaves exactly one more
\* pending timeout; nothing else but onload schedules a cycle.
C3_EveryCycleSchedulesNext ==
    [][/\ \A t \in TaskIds : CycleEnds(t) => timers' = timers + 1
       /\ timers' > timers =>
            /\ timers' = timers + 1
            /\ (\E t \in TaskIds : CycleEnds(t)) \/ (~loaded /\ loaded')]_vars

C3_Witness == lastOutcome = "handlerFault" /\ timers = 1 /\ PollTasks = {}

\* C4: when the element popped is no JSON, the cycle ends there: the next cycle is
\* scheduled, the store changes by the pop alone (no reply is pushed), the host
\* is untouched (no handler ran) and no rejection is left unhandled.
C4_MalformedPayloadDropped ==
    [][\A t \in TaskIds :
          (Pops(t) /\ Taken(t).json = "garbage")
              => /\ task'[t].kind = "none"
                 /\ timers' = timers + 1
                 /\ store' = SetList(store, clients[task[t].client], task[t].key,
                                     Tail(PolledList(t)))
                 /\ UNCHANGED <<hostVars, unhandled>>]_vars

C4_Witness == lastOutcome = "decodeFailed" /\ timers = 1 /\ PollTasks = {}

\* C5: a popped request whose method is not registered is answered, without any
\* host operation, by a push of {success: false, result: "unknown method <m>"} to
\* its reply queue, and a resolved push puts that response there.
C5_UnknownMethodAnswered ==
    [][\A t \in TaskIds :
          /\ (Pops(t) /\ Taken(t).json = "object"
                      /\ Taken(t).body.method \notin RegisteredMethods)
                => /\ task'[t].pc = "replyPush"
                   /\ task'[t].push.key = "obsidian-plugin-tasks:" \o ToString(task[t].qUser)
                                              \o ":" \o Taken(t).body.request_id
                   /\ task'[t].push.payload =
                        Payload("object", Response(FALSE,
                            JsString("unknown method " \o Taken(t).body.method)))
                   /\ UNCHANGED hostVars
          /\ (task[t].pc = "replyPush" /\ CycleEnds(t) /\ lastOutcome' = "replied")
                => Head(ListIn(store', clients[task[t].client], task[t].push.key))
                       = task[t].push.payload]_vars

C5_Witness ==
    ListIn(store, UrlA, "obsidian-plugin-tasks:1:r1")
        = <<Payload("object", Response(FALSE, JsString("unknown method nope")))>>

\* C6: while the active connection settings are unconfigured, no step creates a
\* client, issues a heartbeat push or issues a blocking pop.
C6_NoOperationWhileUnconfigured ==
    [][Unconfigured(getActiveConnectionSettings)
          => /\ clients' = clients
             /\ \A t \in TaskIds :
                   task'[t].pc \in {"hbPush", "blPop"} => task'[t].pc = task[t].pc]_vars

\* A connect() awaited by task t resolves in this step.
ConnectResolved(t) ==
    /\ task[t].pc \in {"connect1", "connect2", "mconnect"}
    /\ task'[t].kind # "none"
    /\ task'[t].pc # task[t].pc

\* C7: a client is created only when ensureRedisClient's condition holds, for the
\* active redisUrl; and when the connect it awaits resolves, lastUsedRedisUrl is
\* the url it read and redisClient is a client created for that url.
C7_EnsureLeavesClientForUrl ==
    [][/\ (clients' # clients /\ \A t \in TaskIds : ~ConnectResolved(t))
            => /\ NeedsConnect(redisClient, lastUsedRedisUrl,
                               getActiveConnectionSettings.redisUrl)
               /\ clients'[redisClient'] = getActiveConnectionSettings.redisUrl
       /\ \A t \in TaskIds :
             ConnectResolved(t)
                => /\ lastUsedRedisUrl' = task[t].url
                   /\ redisClient # 0
                   /\ clients[redisClient] = task[t].url]_vars

\* C8: sendSpanreedWatchdogEvent tags the heartbeat with the tenant id that is
\* active when it reads it; the heartbeat's push is issued only on an ensured
\* connection, to obsidian-plugin-monitor:<that id>; and a blocking pop is issued
\* only by the step in which that push resolves, with the heartbeat then at the
\* head of the monitor list.
C8_HeartbeatBeforePop ==
    [][\A t \in TaskIds :
          /\ (task'[t].kind = "poll" /\ task'[t].pc \in {"connect2", "hbPush"}
                                     /\ task[t].pc \in {"none", "connect1"})
                => task'[t].user = getActiveConnectionSettings.spanreedUserId
          /\ (task'[t].pc = "hbPush" /\ task[t].pc # "hbPush")
                => /\ redisClient' # 0 /\ lastUsedRedisUrl' # Undefined
                   /\ task'[t].client = redisClient'
                   /\ task'[t].push.key = "obsidian-plugin-monitor:" \o ToString(task'[t].user)
                   /\ task'[t].push.payload =
                        Payload("object", [user |-> task'[t].user, kind |-> "watchdog",
                                           message |-> ""])
          /\ (task'[t].pc = "blPop" /\ task[t].pc # "blPop")
                => /\ task[t].pc = "hbPush"
                   /\ task[t].push.key = "obsidian-plugin-monitor:" \o ToString(task[t].user)
                   /\ ListIn(store', clients[task[t].client], task[t].push.key)
                        = <<task[t].push.payload>>
                            \o ListIn(store, clients[task[t].client], task[t].push.key)
                   /\ task'[t].key = "obsidian-plugin-tasks:" \o ToString(task'[t].qUser)]_vars

C8_Witness ==
    \E t \in TaskIds :
        /\ task[t].pc = "blPop" /\ task[t].qUser = 1
        /\ ListIn(store, UrlA, "obsidian-plugin-monitor:1") # <<>>
        /\ Head(ListIn(store, UrlA, "obsidian-plugin-monitor:1")).body.kind = "watchdog"

\* C9: at any time at most one dispatch cycle is running or pending, so at most
\* one request is in a handler or awaiting its reply push.
C9_OneChain ==
    /\ timers + Cardinality(PollTasks) <= 1
    /\ Cardinality({t \in TaskIds : task[t].request # NoRequest}) <= 1

C9_Witness ==
    \E t \in TaskIds : task[t].pc = "handler" /\ nCycles = 2 /\ timers = 0

\* The number i of the controller's request with id "r<i>".
IdIndex(rid) == CHOOSE i \in 1..MaxRequests : rid = "r" \o ToString(i)

\* C10: while a cycle holds a request (its handler runs or its reply is being
\* pushed), no other cycle holds one, and every request still waiting in the
\* polled task queue was pushed after it: requests are handled one at a time in
\* the order of the queue.
C10_Fifo ==
    \A t \in PollTasks :
        task[t].request # NoRequest
            => /\ \A u \in PollTasks \ {t} : task[u].request = NoRequest
               /\ \A url \in UrlTexts :
                    \A i \in 1..Len(ListIn(store, url, task[t].key)) :
                        LET el == ListIn(store, url, task[t].key)[i]
                        IN el.json = "object"
                              => IdIndex(el.body.request_id)
                                     > IdIndex(task[t].request.request_id)

C10_Witness ==
    /\ \E t \in PollTasks : task[t].request.request_id = "r2" /\ task[t].pc = "replyPush"
    /\ ListIn(store, UrlA, "obsidian-plugin-tasks:1:r1") # <<>>

\* The tenant ids the settings can hold.
UserIds == {-1, 1, 2}

\* An error monitor event sits on some monitor queue.
ErrorEventPublished ==
    \E url \in UrlTexts, u \in UserIds :
        LET q == ListIn(store, url, "obsidian-plugin-monitor:" \o ToString(u))
        IN \E i \in 1..Len(q) : q[i].body.kind = "error"

\* C13: after a cycle ended because publishing its response failed, once the next
\* cycle has connected and pushed its heartbeat (it waits in its blocking pop), an
\* error monitor event is on a monitor queue.
C13_PublishFailureReported ==
    (lastOutcome = "publishFailed" /\ \E t \in PollTasks : task[t].pc = "blPop")
        => ErrorEventPublished

\* C14: a monitor event that fails to be published leaves no rejection unhandled,
\* and a cycle whose heartbeat failed schedules the next cycle.
C14_MonitorFailureIsolated ==
    [][\A t \in TaskIds :
          /\ (task[t].kind = "monitor" /\ task'[t].kind = "none")
                => unhandled' = unhandled
          /\ (task[t].pc \in {"connect2", "hbPush"} /\ task'[t].kind = "none")
                => unhandled' = unhandled /\ timers' = timers + 1]_vars

\* A queue operation of task t completes on the transport in this step.
Completes(t) ==
    /\ task[t].pc \in {"hbPush", "blPop", "replyPush", "mPush"}
    /\ task'[t].pc # task[t].pc
    /\ store' # store

\* The client c, for a configured endpoint, was replaced by a client for another
\* endpoint.
Replaced(c) == c # redisClient /\ clients[c] # "" /\ clients[c] # clients[redisClient]

\* C15: every queue operation is issued on the current client, and none completes
\* (no element is popped, no reply or monitor event lands) on a client that was
\* replaced by one for another endpoint.
C15_OldConnectionDead ==
    [][\A t \in TaskIds :
          /\ (task'[t].pc \in {"hbPush", "blPop", "replyPush", "mPush"}
                    /\ task'[t].pc # task[t].pc)
                => task'[t].client = redisClient'
          /\ Completes(t) => ~Replaced(task[t].client)]_vars

\* The reply queues of the controller's requests.
ReplyKeys ==
    {"obsidian-plugin-tasks:" \o ToString(u) \o ":r" \o ToString(i) :
        u \in UserIds, i \in 1..MaxRequests}

\* A failure response was published.
FailureReplied ==
    \E k \in DOMAIN store :
        /\ k[2] \in ReplyKeys
        /\ \E i \in 1..Len(store[k]) : ~store[k][i].body.success

\* C19: when the previous cycle ended in a handler fault or published a failure
\* response, the client it polled on is still the current client, and that
\* client's endpoint is the endpoint of the active settings, the next cycle
\* creates no client and goes straight to its heartbeat.
C19_NoRestartAfterHandlerFailure ==
    [][\A t \in TaskIds :
          (/\ task[t].kind = "none" /\ task'[t].kind = "poll"
           /\ lastOutcome = "handlerFault" \/ (lastOutcome = "replied" /\ FailureReplied)
           /\ redisClient # 0 /\ lastCycleClient = redisClient
           /\ clients[redisClient] = getActiveConnectionSettings.redisUrl)
              => /\ clients' = clients
                 /\ redisClient' = redisClient
                 /\ task'[t].pc = "hbPush"]_vars

\* The tenant's task queue of the serving runs.
ServeTaskQueue == ListIn(store, ServeUrl, "obsidian-plugin-tasks:1")

\* C11: with the transport available and the settings configured, no request
\* left on the task queue is lost: it waits on the queue, or the running cycle
\* holds it, or its response is on its reply queue. (A request that is none of
\* these is never answered: nothing puts it back.)
C11_NoRequestLost ==
    \A i \in 1..nRequests :
        \/ \E j \in 1..Len(ServeTaskQueue) :
              ServeTaskQueue[j].body.request_id = "r" \o ToString(i)
        \/ \E t \in PollTasks : task[t].request.request_id = "r" \o ToString(i)
        \/ ListIn(store, ServeUrl, "obsidian-plugin-tasks:1:r" \o ToString(i)) # <<>>

\* The front-matter callback of task t's modify-property request runs in this step.
FrontMatterStep(t, operations) ==
    /\ task[t].pc = "handler" /\ task'[t].pc = "replyPush"
    /\ task[t].request.method = "modify-property"
    /\ task[t].request.params.operation \in operations

\* C16: removeFromList on a property the front matter does not contain answers
\* {success: true, result: null} and leaves the front matter as it was.
C16_RemoveFromAbsentSucceeds ==
    [][\A t \in TaskIds :
          (/\ FrontMatterStep(t, {"removeFromList"})
           /\ frontmatter[task[t].request.params.property].kind = "undefined")
              => /\ task'[t].push.payload =
                        Payload("object", [success |-> TRUE, result |-> JsNull])
                 /\ frontmatter' = frontmatter]_vars

\* The number of times x occurs in the sequence q.
Occurrences(q, x) == Cardinality({i \in 1..Len(q) : q[i] = x})

C18_NotAListRejected ==
    [][\A t \in TaskIds :
          (/\ FrontMatterStep(t, {"addToList", "removeFromList"})
           /\ frontmatter[task[t].request.params.property].kind \notin {"undefined", "array"})
              => /\ task'[t].push.payload =
                        Payload("object", [success |-> FALSE,
                                           result |-> JsString("property is not a list")])
                 /\ frontmatter' = frontmatter]_vars

C18_Witness ==
    /\ frontmatter["tags"] = JsString("v1")
    /\ \E t \in TaskIds :
          /\ task[t].pc = "replyPush"
          /\ task[t].request.params.operation = "removeFromList"
          /\ task[t].push.payload.body.result = JsString("property is not a list")

\* The methods the handler registry is required to contain.
RequiredMethods ==
    {"generate-daily-note", "modify-property", "query-dataview", "read-file", "list-dir",
     "move-file"}

\* C20: a popped request naming a required method is never answered with
\* "unknown method <name>".
C20_RequiredMethodsRegistered ==
    [][\A t \in TaskIds :
          (Pops(t) /\ Taken(t).json = "object" /\ Taken(t).body.method \in RequiredMethods)
              => ~(/\ task'[t].pc = "replyPush"
                   /\ task'[t].push.payload =
                        Payload("object",
                                [success |-> FALSE,
                                 result |-> JsString("unknown method "
                                                     \o Taken(t).body.method)]))]_vars

\* C12: in the initial variant too, a cycle waiting in its blocking pop leaves
\* it: the pop resolves, with an element or, the queue staying empty, with null
\* after its timeout.
C12_BlockingPopEnds ==
    \A t \in TaskIds : (task[t].pc = "iblPop") ~> (task[t].pc # "iblPop")

\* C21: a reply is pushed to the reply queue of the tenant whose task queue the
\* request was popped from: the key of a cycle's reply push is the key of its
\* blocking pop followed by ":" and the request's id.
C21_ReplyToPoppedTenant ==
    \A t \in PollTasks :
        task[t].pc = "replyPush"
            => task[t].push.key = task[t].key \o ":" \o task[t].request.request_id

\* C22: a cycle waiting in its blocking pop polls the task queue of the tenant
\* its heartbeat was tagged with, and some environment holds both that tenant id
\* and the endpoint of the client the pop was issued on.
C22_OneEnvironmentPerCycle ==
    \A t \in PollTasks :
        task[t].pc = "blPop"
            => /\ task[t].qUser = task[t].user
               /\ \E e \in Environment :
                     /\ connObj[connRef[e]].spanreedUserId = task[t].qUser
                     /\ connObj[connRef[e]].redisUrl = clients[task[t].client]

\* The calls of createRedisClient that are awaiting connect().
Connecting == {t \in TaskIds : task[t].pc \in {"connect1", "connect2", "mconnect"}}

\* The clients that are open: connected, or connecting.
OpenClients == connected \cup {task[t].client : t \in Connecting}

\* C23: at most one createRedisClient is awaiting connect(), and at most one
\* client created by the plugin is open.
C23_NoReentryNoLeak ==
    /\ Cardinality(Connecting) <= 1
    /\ Cardinality(OpenClients) <= 1

\* C24: a change made in the settings tab changes the connection settings of at
\* most one environment.
C24_EnvironmentsIndependent ==
    [][loaded =>
          Cardinality({e \in Environment :
                          connObj'[connRef'[e]] # connObj[connRef[e]]}) <= 1]_vars

\* C25: a popped modify-property request on an existing file with an operation
\* outside the five of the switch is answered {success: false, result: "unknown
\* error"}, and one on a path matching no markdown file is answered {success:
\* false, result: "file not found"}; either way the handler awaits no front-matter
\* processing (the reply push is issued in the same step) and the front matter
\* is unchanged.
C25_UnknownOperationOrFileFails ==
    [][\A t \in TaskIds :
          LET request == Taken(t).body
          IN (Pops(t) /\ Taken(t).json = "object" /\ request.method = "modify-property")
                => /\ (/\ request.params.filepath \in MarkdownFiles
                       /\ request.params.operation \notin
                             {"addToList", "removeFromList", "setSingleValue",
                              "deleteProperty", "getProperty"})
                         => /\ task'[t].pc = "replyPush"
                            /\ task'[t].push.payload =
                                  Payload("object", [success |-> FALSE,
                                                     result |-> JsString("unknown error")])
                            /\ frontmatter' = frontmatter
                   /\ request.params.filepath \notin MarkdownFiles
                         => /\ task'[t].pc = "replyPush"
                            /\ task'[t].push.payload =
                                  Payload("object", [success |-> FALSE,
                                                     result |-> JsString("file not found")])
                            /\ frontmatter' = frontmatter]_vars

C25_Witness ==
    \E t \in TaskIds :
        /\ task[t].pc = "replyPush"
        /\ task[t].request.method = "modify-property"
        /\ task[t].request.params.filepath = "a.md"
        /\ task[t].request.params.operation = "renameProperty"
        /\ task[t].push.payload.body = [success |-> FALSE, result |-> JsString("unknown error")]

====
